---- MODULE Spec2Model ----
(***************************************************************************)
(* MetisPartitioner::partition_range (src/src/partitioning/                *)
(* metis_partitioner.C) as a state machine.  Every process of the mesh's   *)
(* communicator runs partition_range on its own copy of the mesh; the      *)
(* processes meet in the two collectives, mesh.allgather() and             *)
(* mesh.comm().broadcast(part).  Program locations are named after the     *)
(* source line the process is about to execute.                            *)
(*                                                                         *)
(* Spec       one collective call on every process of the communicator     *)
(* SpecIndex  the global index assigner on two orderings of one range      *)
(* SpecCalls  calls one after the other on one process                     *)
(* SpecGraph  the CSR graph builder on processor 0, over a set of meshes   *)
(* SpecWhole  _do_partition on one process, with the engine                *)
(***************************************************************************)
EXTENDS Integers, Sequences, FiniteSets, TLC

\* ------------------------------------------------------------------ bounds
\* Elements of the mesh in a collective call (Spec).
MaxElem == 2
\* Elements held by the containers the index assigner is run on (SpecIndex).
MaxIndexElem == 3
MaxProcs == 2
MaxPieces == 2
\* Calls of partition_range one after the other on one mesh (SpecCalls).
MaxCalls == 3
\* Elements along a side of the largest quad grid (SpecGraph).
MaxGrid == 2
\* How often solve() of the two-step time solver may repeat a time step.
MaxRetries == 2

\* Use recursive bisection if the number of partitions is <= 8 (line 493).
RecursiveMax == 8


\* An owner no call with n_pieces <= MaxPieces assigns: what an element holds
\* before it is partitioned (an old partition, or invalid_processor_id).
OldOwner == MaxPieces + 1

VARIABLES
  n_processors,      \* mesh.n_processors(): the size of the communicator
  n_pieces,          \* the argument n_pieces
  have_metis,        \* LIBMESH_HAVE_METIS
  enable_unique_id,  \* LIBMESH_ENABLE_UNIQUE_ID
  mesh_range,        \* the ids [beg,end) iterates on a serialized mesh, in order
  hint,              \* hint[e]: the global index find_global_indices returns for e
  mesh,              \* the elements: ids, neighbor pointers, refinement, weights
  serial_at_entry,   \* mesh.is_serial() when partition_range was called
  is_serial,         \* is_serial[p]: mesh.is_serial() on process p
  range,             \* range[p]: the ids [beg,end) iterates on process p, in order
  processor_id,      \* processor_id[p][e]: elem->processor_id() on process p
  pc,                \* pc[p]: where process p stands in partition_range
  global_index_map,  \* global_index_map[p]: the vectormap id -> index
  part,              \* part[p]: the vector part on process p
  gather_arrived,    \* the processes that have entered mesh.allgather()
  bcast_buf,         \* <<>>, or <<v>> once the root has broadcast v
  notice_printed,    \* notice_printed[p]: libmesh_do_once's static flag
  log,               \* log[p]: what process p has done in this call
  csr,               \* csr[p]: interior_to_boundary_map, vwgt and csr_graph
  notices,           \* notices[p]: how often the no-Metis notice was printed
  engine_memo,       \* what the engine returned, per input it was called with
  history,           \* the calls of partition_range that have returned
  twostep            \* the TwostepTimeSolver, its system and its solve()

vars == << n_processors, n_pieces, have_metis, enable_unique_id, mesh_range,
           hint, mesh, serial_at_entry, is_serial, range, processor_id, pc,
           global_index_map, part, gather_arrived, bcast_buf, notice_printed,
           log, csr, notices, engine_memo, history, twostep >>

\* What a call of partition_range is given and does not change.  (n_pieces
\* is the argument of the call in progress.)
inputs == << n_processors, n_pieces, have_metis, enable_unique_id, mesh_range,
             hint, mesh, serial_at_entry >>

\* What outlives a call.
carried == << notices, engine_memo, history >>

Procs == 0 .. (n_processors - 1)

\* The ids of the mesh's elements.
ElemIds == DOMAIN processor_id[0]

\* ----------------------------------------------------------------- helpers
SeqRange(s) == { s[i] : i \in DOMAIN s }

IsInjective(s) == \A i, j \in DOMAIN s : s[i] = s[j] => i = j

\* The entries of s at the positions I, in the order of s.
Restrict(s, I) ==
  LET Sel[i \in 0 .. Len(s)] ==
        IF i = 0 THEN << >>
        ELSE IF i \in I THEN Append(Sel[i - 1], s[i]) ELSE Sel[i - 1]
  IN  Sel[Len(s)]

SubSeqsOf(s) == { Restrict(s, I) : I \in SUBSET (DOMAIN s) }

\* The ranges a mesh with the ids 0 .. n-1 can hand to partition_range: a
\* mesh iterates its elements in the order of their ids.
MeshRanges(n) == SubSeqsOf([i \in 1 .. n |-> i - 1])

Perms(S) == { s \in [1 .. Cardinality(S) -> S] : SeqRange(s) = S }

PosOf(s, e) == CHOOSE i \in DOMAIN s : s[i] = e

EmptyMap == [e \in {} |-> 0]

NewLog == [gather |-> 0, warn |-> 0, index |-> 0, graph |-> 0, engine |-> 0,
           entry |-> "none", result |-> << >>, sfc |-> 0, bcast |-> 0,
           assign |-> 0, single |-> 0, do_partition |-> 0]

Bump(p, f) == [log EXCEPT ![p][f] = @ + 1]

\* interior_to_boundary_map, vwgt, csr_graph and graph_size before they are
\* built, and the writes the second pass has made into csr_graph.vals.
NewCsr == [i2b |-> {}, vwgt |-> << >>, offsets |-> << >>, vals |-> << >>,
           graph_size |-> 0, writes |-> {}]

\* ------------------------------------------------- global index assignment
\* Faulty variant: the index of an element depends on the owner an earlier
\* call left on it.
FindGlobalIndicesByOwner(rng) ==
  [i \in 1 .. Len(rng) |->
     IF processor_id[0][rng[i]] = OldOwner
     THEN hint[rng[i]] ELSE (Len(rng) - 1) - hint[rng[i]]]

\* find_global_indices (line 123): global_index[cnt] is the hint of the
\* cnt-th element of the range.
FindGlobalIndices(rng) == [i \in 1 .. Len(rng) |-> hint[rng[i]]]

\* global_index_inverses[h] (lines 141-153): the ids whose hint is h, in the
\* order the loop pushed them.
GlobalIndexInverses(rng, gi) ==
  [h \in SeqRange(gi) |-> Restrict(rng, { i \in DOMAIN gi : gi[i] = h })]

\* Faulty variant: the duplicate check never reports a duplicate.
FoundDuplicateNever(inv) == FALSE

\* found_duplicate_indices (lines 143-152): some bucket got a second id.
FoundDuplicateIndices(inv) == \E h \in DOMAIN inv : Len(inv[h]) > 1

\* std::map insertion of one key: the keys stay in ascending order.
InsertSorted(s, k) ==
  LET below == { i \in DOMAIN s : s[i] < k }
  IN  Restrict(s, below) \o << k >> \o Restrict(s, (DOMAIN s) \ below)

\* Faulty variant: the buckets are renumbered in the unordered map's own order.
SortedInversesUnsorted(order) == order

\* sorted_inverses (lines 160-162): a std::map filled from the unordered
\* map, whose iteration order `order` is unspecified; the keys as the
\* std::map then iterates them.
SortedInverses(order) ==
  LET Ins[i \in 0 .. Len(order)] ==
        IF i = 0 THEN << >> ELSE InsertSorted(Ins[i - 1], order[i])
  IN  Ins[Len(order)]

\* Lines 163-166: new_global_index++ over the buckets in key order, and
\* over each bucket's ids in the order they were pushed.
RenumberedMap(keys, inv) ==
  LET Flat[i \in 0 .. Len(keys)] ==
        IF i = 0 THEN << >> ELSE Flat[i - 1] \o inv[keys[i]]
      ids == Flat[Len(keys)]
  IN  [e \in SeqRange(ids) |-> PosOf(ids, e) - 1]

\* Faulty variant: an element is indexed by its place in the iteration.
DirectMapByPosition(rng, gi) == [e \in SeqRange(rng) |-> PosOf(rng, e) - 1]

\* Lines 133-134 and 170-172: emplace(elem->id(), global_index[cnt++]).
DirectMap(rng, gi) == [e \in SeqRange(rng) |-> gi[PosOf(rng, e)]]

\* Lines 131-174: the maps the block can build; the order in which the
\* unordered map hands its buckets to sorted_inverses is unspecified.
BuildGlobalIndexMap(rng) ==
  LET gi  == FindGlobalIndices(rng)
      inv == GlobalIndexInverses(rng, gi)
  IN  IF enable_unique_id THEN { DirectMap(rng, gi) }
      ELSE IF FoundDuplicateIndices(inv)
           THEN { RenumberedMap(SortedInverses(order), inv) :
                    order \in Perms(DOMAIN inv) }
           ELSE { DirectMap(rng, gi) }

\* Lines 176-187: the size and (DEBUG) distinctness assertions.
IndexMapAssertionsHold(rng, m) ==
  /\ Cardinality(DOMAIN m) = Len(rng)
  /\ Cardinality({ m[e] : e \in DOMAIN m }) = Len(rng)

\* -------------------------------------------------- collaborators' results
\* Partitioner::single_partition_range: owner 0 for every element of the
\* range.
SinglePartitionRange(own, rng) ==
  [e \in DOMAIN own |-> IF e \in SeqRange(rng) THEN 0 ELSE own[e]]

\* SFCPartitioner::partition_range: the range in space-filling-curve order
\* (ties in iteration order), cut into n_pieces blocks of equal size.
SfcPartitionRange(own, rng, k) ==
  LET gi      == FindGlobalIndices(rng)
      inv     == GlobalIndexInverses(rng, gi)
      keys    == SortedInverses(CHOOSE o \in Perms(DOMAIN inv) : TRUE)
      pos     == RenumberedMap(keys, inv)
      blksize == (Len(rng) + k - 1) \div k
  IN  [e \in DOMAIN own |->
         IF e \in SeqRange(rng) THEN pos[e] \div blksize ELSE own[e]]

\* What the engine (METIS_PartGraphRecursive / METIS_PartGraphKway) may
\* leave in part: one id of [0,nparts) per vertex.
EngineResults(n, nparts) == [1 .. n -> 0 .. (nparts - 1)]

\* ---------------------------------------------------------------- the mesh
\* mesh.elem is the arena of Elem objects a pointer can reach, mesh.weights
\* the vector behind _weights (EmptyMap: the pointer is null).  An Elem
\* pointer is an index of the arena.  An element of the mesh being
\* partitioned sits at the index that equals its id; any further index is
\* an element of some other mesh (local = FALSE).
Null == 0 - 1

ElemPtrs == DOMAIN mesh.elem

NewElem(i, nbrs, nn) ==
  [id |-> i, local |-> TRUE, active |-> TRUE, neighbors |-> nbrs,
   children |-> << >>, interior_parent |-> FALSE, interior_neighbors |-> {},
   n_nodes |-> nn, spline |-> FALSE]

Arena(s) == [e \in 0 .. (Len(s) - 1) |-> s[e + 1]]

NoWeights(elems) == [elem |-> elems, weights |-> EmptyMap]

\* n EDGE2 elements in a row; side 0 is the left end, side 1 the right end.
ChainMesh(n) ==
  NoWeights([e \in 0 .. (n - 1) |->
     NewElem(e, << IF e = 0 THEN Null ELSE e - 1,
                   IF e = n - 1 THEN Null ELSE e + 1 >>, 2)])

\* nx x ny QUAD4 elements, row by row; sides: bottom, right, top, left.
GridMesh(nx, ny) ==
  NoWeights([e \in 0 .. (nx * ny - 1) |->
     LET i == e % nx
         j == e \div nx
     IN  NewElem(e, << IF j = 0 THEN Null ELSE e - nx,
                       IF i = nx - 1 THEN Null ELSE e + 1,
                       IF j = ny - 1 THEN Null ELSE e + nx,
                       IF i = 0 THEN Null ELSE e - 1 >>, 4)])

\* Two QUAD4 side by side, the right one (1) refined once: its children
\* 2 (lower left), 3 (lower right), 4 (upper left), 5 (upper right).
QuadAmrMesh ==
  NoWeights(Arena(<<
     NewElem(0, << Null, 1, Null, Null >>, 4),
     [NewElem(1, << Null, Null, Null, 0 >>, 4)
        EXCEPT !.active = FALSE, !.children = << 2, 3, 4, 5 >>],
     NewElem(2, << Null, 3, 4, 0 >>, 4),
     NewElem(3, << Null, Null, 5, 2 >>, 4),
     NewElem(4, << 2, 5, Null, 0 >>, 4),
     NewElem(5, << 3, Null, Null, 4 >>, 4) >>))

\* Two EDGE2 in a row, the right one (1) refined into 2 and 3, and 2
\* refined again into 4 and 5: a mesh that is not level-1.
EdgeAmrMesh ==
  NoWeights(Arena(<<
     NewElem(0, << Null, 1 >>, 2),
     [NewElem(1, << 0, Null >>, 2)
        EXCEPT !.active = FALSE, !.children = << 2, 3 >>],
     [NewElem(2, << 0, 3 >>, 2)
        EXCEPT !.active = FALSE, !.children = << 4, 5 >>],
     NewElem(3, << 2, Null >>, 2),
     NewElem(4, << 0, 5 >>, 2),
     NewElem(5, << 4, 3 >>, 2) >>))

\* Two EDGE2 (0, 1) and two NODEELEM on their ends (2 on the left end of 0,
\* 3 between 0 and 1), each with an interior parent in the same mesh; 3 is
\* a spline node.
BoundaryNodesMesh ==
  NoWeights(Arena(<<
     NewElem(0, << Null, 1 >>, 2),
     NewElem(1, << 0, Null >>, 2),
     [NewElem(2, << >>, 1)
        EXCEPT !.interior_parent = TRUE, !.interior_neighbors = {0}],
     [NewElem(3, << >>, 1)
        EXCEPT !.interior_parent = TRUE, !.interior_neighbors = {0, 1},
               !.spline = TRUE] >>))

\* A BoundaryMesh: two EDGE2 (0, 1) whose interior parents (2, 3) are
\* elements of the mesh the boundary was taken from; that mesh numbers its
\* elements on its own, so 2 carries the id 0.
BoundaryMesh ==
  NoWeights(Arena(<<
     [NewElem(0, << Null, 1 >>, 2)
        EXCEPT !.interior_parent = TRUE, !.interior_neighbors = {2}],
     [NewElem(1, << 0, Null >>, 2)
        EXCEPT !.interior_parent = TRUE, !.interior_neighbors = {3}],
     [NewElem(0, << Null, 3, Null, Null >>, 4) EXCEPT !.local = FALSE],
     [NewElem(7, << Null, Null, Null, 2 >>, 4) EXCEPT !.local = FALSE] >>))

\* A corrupt mesh: side 1 of element 0 points back at element 0.
SelfLoopMesh ==
  NoWeights(Arena(<<
     NewElem(0, << Null, 0 >>, 2),
     NewElem(1, << Null, Null >>, 2) >>))

\* The mesh with the weights w installed by attach_weights.
WithWeights(m, w) == [m EXCEPT !.weights = w]

\* The ids of the mesh's own elements, and of its active ones.
LocalIds(m) == { e \in DOMAIN m.elem : m.elem[e].local }

ActiveIds(m) == { e \in LocalIds(m) : m.elem[e].active }

\* The set S of naturals as a sequence in ascending order.
Ascending(S) ==
  LET Take[i \in 0 .. Cardinality(S)] ==
        IF i = 0 THEN << >>
        ELSE LET done == SeqRange(Take[i - 1])
             IN  Append(Take[i - 1],
                        CHOOSE x \in S \ done : \A y \in S \ done : x <= y)
  IN  Take[Cardinality(S)]

\* mesh.query_elem_ptr(id): the mesh's own element with that id, if any.
QueryElemPtr(i) ==
  IF \E e \in ElemPtrs : mesh.elem[e].local /\ mesh.elem[e].id = i
  THEN CHOOSE e \in ElemPtrs : mesh.elem[e].local /\ mesh.elem[e].id = i
  ELSE Null

\* Elem::active_family_tree: the active descendants, or the element itself.
RECURSIVE ActiveFamilyTree(_)
ActiveFamilyTree(e) ==
  IF mesh.elem[e].active THEN << e >>
  ELSE LET ch == mesh.elem[e].children
           Tree[i \in 0 .. Len(ch)] ==
             IF i = 0 THEN << >>
             ELSE Tree[i - 1] \o ActiveFamilyTree(ch[i])
       IN  Tree[Len(ch)]

\* Elem::which_neighbor_am_i: the side of nb on which e lies, or (as
\* invalid_uint) a side nb does not have.  Sides are counted from 1 here.
WhichNeighborAmI(nb, e) ==
  LET sides == mesh.elem[nb].neighbors
  IN  IF \E s \in DOMAIN sides : sides[s] = e
      THEN CHOOSE s \in DOMAIN sides :
             sides[s] = e /\ \A t \in DOMAIN sides : sides[t] = e => s <= t
      ELSE Len(sides) + 1

\* ------------------------------------------------------------- the graph
\* global_index_map.count(elem->id()).
InIndexMap(gim, e) == mesh.elem[e].id \in DOMAIN gim

\* Faulty variant: every active descendant of the neighbor is a connection.
ChildConnectionsAll(e, nb, gim) ==
  LET InMap(c) == InIndexMap(gim, c)
  IN  SelectSeq(ActiveFamilyTree(nb), InMap)

\* Lines 307-340 and 414-440: the descendants of the inactive neighbor nb
\* that are in the range and whose neighbor on side ns is e.
ChildConnections(e, nb, gim) ==
  LET ns == WhichNeighborAmI(nb, e)
      Touches(c) ==
        /\ InIndexMap(gim, c)
        /\ ns \in DOMAIN mesh.elem[c].neighbors
        /\ mesh.elem[c].neighbors[ns] = e
  IN  SelectSeq(ActiveFamilyTree(nb), Touches)

\* Lines 285-345 and 392-445: the connections found through one side.
SideConnections(e, nb, gim) ==
  IF nb = Null THEN << >>
  ELSE IF mesh.elem[nb].active /\ ~ InIndexMap(gim, nb) THEN << >>
  ELSE IF mesh.elem[nb].active THEN << nb >>
  ELSE ChildConnections(e, nb, gim)

\* Lines 283-346 and 390-446: the loop over elem->neighbor_ptr_range().
FaceConnections(e, gim) ==
  LET sides == mesh.elem[e].neighbors
      Conn[s \in 0 .. Len(sides)] ==
        IF s = 0 THEN << >>
        ELSE Conn[s - 1] \o SideConnections(e, sides[s], gim)
  IN  Conn[Len(sides)]

\* Lines 309 and 416: libmesh_assert_less (ns, neighbor->n_neighbors()).
AmrAssertionsHold(e) ==
  \A s \in DOMAIN mesh.elem[e].neighbors :
    LET nb == mesh.elem[e].neighbors[s]
    IN  (nb # Null /\ ~ mesh.elem[nb].active) =>
          WhichNeighborAmI(nb, e) \in DOMAIN mesh.elem[nb].neighbors

\* Lines 201-207, 349-353 and 448-453: find_interior_neighbors of an
\* element below the mesh dimension that has an interior parent.
InteriorNeighbors(e) ==
  IF mesh.elem[e].interior_parent
  THEN mesh.elem[e].interior_neighbors ELSE {}

\* Faulty variant: no reverse lookup from interior to boundary elements.
InteriorToBoundaryMapEmpty(rng) == {}

\* Lines 197-211: interior_to_boundary_map, as the set of its pairs.
InteriorToBoundaryMap(rng) ==
  { pr \in ElemPtrs \X SeqRange(rng) : pr[1] \in InteriorNeighbors(pr[2]) }

\* Lines 361 and 474: interior_to_boundary_map.equal_range(elem).
BoundaryNeighbors(i2b, e) == { pr[2] : pr \in { q \in i2b : q[1] = e } }

\* Lines 279-363: num_neighbors of the first pass.
NumNeighbors(e, gim, i2b) ==
  Len(FaceConnections(e, gim))
    + Cardinality(InteriorNeighbors(e))
    + Cardinality(BoundaryNeighbors(i2b, e))

\* The weight given to a spline node (line 272).
SplineWeight == 50

\* Faulty variant: the weight is the node count, whatever the element and
\* the override.
VertexWeightNodesOnly(e) == mesh.elem[e].n_nodes

\* Lines 263-277: the vertex weight of an element.
VertexWeight(e) ==
  IF mesh.weights = EmptyMap
  THEN IF mesh.elem[e].spline THEN SplineWeight ELSE mesh.elem[e].n_nodes
  ELSE mesh.weights[mesh.elem[e].id]

\* The element of the range with global index g.
ElemAt(rng, gim, g) == CHOOSE e \in SeqRange(rng) : gim[e] = g

\* Lines 255-376: vwgt after the first pass.
PassOneWeights(rng, gim) ==
  [i \in 1 .. Len(rng) |-> VertexWeight(ElemAt(rng, gim, i - 1))]

\* Faulty variant: the count of the element with global index g is left in
\* offsets[g].
PassOneOffsetsShifted(rng, gim, i2b) ==
  [i \in 1 .. (Len(rng) + 1) |->
     IF i = Len(rng) + 1 THEN 0
     ELSE NumNeighbors(ElemAt(rng, gim, i - 1), gim, i2b)]

\* Lines 237 and 372: offsets after the first pass: prep_n_nonzeros(g, n)
\* leaves n in offsets[g+1].
PassOneOffsets(rng, gim, i2b) ==
  [i \in 1 .. (Len(rng) + 1) |->
     IF i = 1 THEN 0 ELSE NumNeighbors(ElemAt(rng, gim, i - 2), gim, i2b)]

SumSeq(s) ==
  LET Sum[i \in 0 .. Len(s)] == IF i = 0 THEN 0 ELSE Sum[i - 1] + s[i]
  IN  Sum[Len(s)]

\* METIS_CSR_Graph::prepare_for_use: the offsets become their partial sums.
PartialSums(offs) == [i \in DOMAIN offs |-> SumSeq(SubSeq(offs, 1, i))]

\* Faulty variant: vals is sized by the offsets alone.
PreparedValsNoDummy(offs) == [i \in 1 .. offs[Len(offs)] |-> 0]

\* METIS_CSR_Graph::prepare_for_use: vals.resize(offsets.back()), and one
\* slot if that left vals empty.
PreparedVals(offs) ==
  IF offs[Len(offs)] = 0 THEN << 0 >> ELSE [i \in 1 .. offs[Len(offs)] |-> 0]

\* Lines 455-470: the interior neighbors the second pass writes: those
\* that mesh.query_elem_ptr finds under their own id.
QueriedInteriorNeighbors(e) ==
  { nb \in InteriorNeighbors(e) : QueryElemPtr(mesh.elem[nb].id) = nb }

\* Line 469: libmesh_map_find finds the id of every interior neighbor it
\* is asked for.
MapFindHolds(e, gim) ==
  \A nb \in QueriedInteriorNeighbors(e) : InIndexMap(gim, nb)

\* Lines 386-479: the elements whose global index the second pass writes
\* into the row of e, slot by slot.
RowConnections(e, gim, i2b) ==
  FaceConnections(e, gim)
    \o Ascending(QueriedInteriorNeighbors(e))
    \o Ascending(BoundaryNeighbors(i2b, e))

\* Lines 403, 438, 468 and 477: the writes csr_graph(row, connection++) =
\* index for the row of e, as pairs << position in vals, value >>;
\* positions are counted from 1.
RowWrites(e, gim, i2b, offs) ==
  LET conn == RowConnections(e, gim, i2b)
  IN  { << offs[gim[e] + 1] + k, gim[mesh.elem[conn[k]].id] >> :
          k \in DOMAIN conn }

\* Lines 381-480: the writes of the second pass.
PassTwoWrites(rng, gim, i2b, offs) ==
  UNION { RowWrites(e, gim, i2b, offs) : e \in SeqRange(rng) }

\* METIS_CSR_Graph::operator(): libmesh_assert_greater (vals.size(),
\* offsets[row] + nonzero) for every write.
WritesInVals(writes, vals) == \A w \in writes : w[1] <= Len(vals)

\* vals after the writes.
WrittenVals(writes, vals) ==
  [i \in DOMAIN vals |->
     IF \E w \in writes : w[1] = i
     THEN (CHOOSE w \in writes : w[1] = i)[2] ELSE vals[i]]

\* Lines 484-485: vals.size() == max(graph_size, 1).
GraphSizeAssertionHolds(vals, graph_size) ==
  Len(vals) = IF graph_size > 1 THEN graph_size ELSE 1

\* ------------------------------------------------------------------ guards
\* Faulty variant: every process takes the processor 0 block.
IsProcessorZeroAny(p) == TRUE

\* Line 218: mesh.processor_id() == 0.
IsProcessorZero(p) == p = 0

\* Faulty variant: the mesh is never gathered.
MustGatherNever(p) == FALSE

\* Line 87: !mesh.is_serial().
MustGather(p) == ~ is_serial[p]

\* Faulty variant: the n_pieces == 1 branch does not keep the call off the pipeline.
PastEasyReturnsNoTrivial(p) ==
  /\ pc[p] = "L74"
  /\ range[p] # << >>
  /\ n_pieces > 0

\* Faulty variant: the empty range does not keep the call off the pipeline.
PastEasyReturnsEmptyToo(p) ==
  /\ pc[p] = "L74"
  /\ n_pieces # 1
  /\ n_pieces > 0

\* Lines 75, 78, 84: past the easy returns and the assertion.
PastEasyReturns(p) ==
  /\ pc[p] = "L74"
  /\ range[p] # << >>
  /\ n_pieces # 1
  /\ n_pieces > 0

\* ----------------------------------------------------------------- actions
\* Lines 75-76: if (beg == end) return.
ReturnEmpty(p) ==
  /\ pc[p] = "L74"
  /\ range[p] = << >>
  /\ pc' = [pc EXCEPT ![p] = "done"]
  /\ UNCHANGED << inputs, twostep, csr, carried, is_serial, range, processor_id, global_index_map,
                  part, gather_arrived, bcast_buf, notice_printed, log >>

\* Lines 78-82: n_pieces == 1: single_partition_range and return.
SinglePartition(p) ==
  /\ pc[p] = "L74"
  /\ range[p] # << >>
  /\ n_pieces = 1
  /\ processor_id' = [processor_id EXCEPT
                        ![p] = SinglePartitionRange(@, range[p])]
  /\ log' = Bump(p, "single")
  /\ pc' = [pc EXCEPT ![p] = "done"]
  /\ UNCHANGED << inputs, twostep, csr, carried, is_serial, range, global_index_map, part,
                  gather_arrived, bcast_buf, notice_printed >>

\* Line 84: libmesh_assert_greater (n_pieces, 0) fails.
AssertPiecesFails(p) ==
  /\ pc[p] = "L74"
  /\ range[p] # << >>
  /\ n_pieces # 1
  /\ ~ (n_pieces > 0)
  /\ pc' = [pc EXCEPT ![p] = "failed"]
  /\ UNCHANGED << inputs, twostep, csr, carried, is_serial, range, processor_id, global_index_map,
                  part, gather_arrived, bcast_buf, notice_printed, log >>

\* Lines 87-90: the mesh is not serial: print the warning and enter
\* mesh.allgather().
WarnAndGather(p) ==
  /\ PastEasyReturns(p)
  /\ MustGather(p)
  /\ log' = [log EXCEPT ![p].warn = @ + 1, ![p].gather = @ + 1]
  /\ gather_arrived' = gather_arrived \cup {p}
  /\ pc' = [pc EXCEPT ![p] = "L90"]
  /\ UNCHANGED << inputs, twostep, csr, carried, is_serial, range, processor_id, global_index_map,
                  part, bcast_buf, notice_printed >>

\* Line 90: mesh.allgather() returns once every process of the communicator
\* has entered it; the mesh is then serial and [beg,end) iterates the whole
\* range.
AllgatherReturns(p) ==
  /\ pc[p] = "L90"
  /\ gather_arrived = Procs
  /\ is_serial' = [is_serial EXCEPT ![p] = TRUE]
  /\ range' = [range EXCEPT ![p] = mesh_range]
  /\ pc' = [pc EXCEPT ![p] = "L93"]
  /\ UNCHANGED << inputs, twostep, csr, carried, processor_id, global_index_map, part,
                  gather_arrived, bcast_buf, notice_printed, log >>

\* Line 87: the mesh is serial: no gather.
SkipGather(p) ==
  /\ PastEasyReturns(p)
  /\ ~ MustGather(p)
  /\ pc' = [pc EXCEPT ![p] = "L93"]
  /\ UNCHANGED << inputs, twostep, csr, carried, is_serial, range, processor_id, global_index_map,
                  part, gather_arrived, bcast_buf, notice_printed, log >>

\* Faulty variant: the notice is printed by every call.
FallbackSfcNoticeEachCall(p) ==
  /\ pc[p] = "L93"
  /\ ~ have_metis
  /\ notices' = [notices EXCEPT ![p] = @ + 1]
  /\ notice_printed' = [notice_printed EXCEPT ![p] = TRUE]
  /\ processor_id' = [processor_id EXCEPT
                        ![p] = SfcPartitionRange(@, range[p], n_pieces)]
  /\ log' = Bump(p, "sfc")
  /\ pc' = [pc EXCEPT ![p] = "done"]
  /\ UNCHANGED << inputs, twostep, csr, engine_memo, history, is_serial, range,
                  global_index_map, part, gather_arrived, bcast_buf >>

\* Lines 94-102: no Metis: the notice (libmesh_do_once: unless this process
\* has printed it before), then SFCPartitioner.
FallbackSfc(p) ==
  /\ pc[p] = "L93"
  /\ ~ have_metis
  /\ notices' = [notices EXCEPT ![p] = IF notice_printed[p] THEN @ ELSE @ + 1]
  /\ notice_printed' = [notice_printed EXCEPT ![p] = TRUE]
  /\ processor_id' = [processor_id EXCEPT
                        ![p] = SfcPartitionRange(@, range[p], n_pieces)]
  /\ log' = Bump(p, "sfc")
  /\ pc' = [pc EXCEPT ![p] = "done"]
  /\ UNCHANGED << inputs, twostep, csr, engine_memo, history, is_serial, range,
                  global_index_map, part, gather_arrived, bcast_buf >>

\* Lines 109-188: n_range_elem and the global index map.
BuildIndexMap(p) ==
  /\ pc[p] = "L93"
  /\ have_metis
  /\ \E m \in BuildGlobalIndexMap(range[p]) :
       /\ global_index_map' = [global_index_map EXCEPT ![p] = m]
       /\ pc' = [pc EXCEPT ![p] =
                   IF IndexMapAssertionsHold(range[p], m)
                   THEN "L197" ELSE "failed"]
  /\ log' = Bump(p, "index")
  /\ UNCHANGED << inputs, twostep, csr, carried, is_serial, range, processor_id, part,
                  gather_arrived, bcast_buf, notice_printed >>

\* Lines 194-211: interior_to_boundary_map.
BuildInteriorMap(p) ==
  /\ pc[p] = "L197"
  /\ csr' = [csr EXCEPT ![p].i2b = InteriorToBoundaryMap(range[p])]
  /\ pc' = [pc EXCEPT ![p] = "L213"]
  /\ UNCHANGED << inputs, twostep, carried, is_serial, range, processor_id,
                  global_index_map, part, gather_arrived, bcast_buf,
                  notice_printed, log >>

\* Faulty variant: only processor 0 calls the broadcast.
SkipProcessorZeroBlockNoBroadcast(p) ==
  /\ pc[p] = "L213"
  /\ ~ IsProcessorZero(p)
  /\ part' = [part EXCEPT ![p] = [i \in 1 .. Len(range[p]) |-> 0]]
  /\ pc' = [pc EXCEPT ![p] = "L532"]
  /\ UNCHANGED << inputs, twostep, csr, carried, is_serial, range, processor_id, global_index_map,
                  gather_arrived, bcast_buf, notice_printed, log >>

\* Line 214: std::vector<Metis::idx_t> part(n_range_elem), and on the other
\* processes the branch of line 218 not taken.
SkipProcessorZeroBlock(p) ==
  /\ pc[p] = "L213"
  /\ ~ IsProcessorZero(p)
  /\ part' = [part EXCEPT ![p] = [i \in 1 .. Len(range[p]) |-> 0]]
  /\ pc' = [pc EXCEPT ![p] = "L527"]
  /\ UNCHANGED << inputs, twostep, csr, carried, is_serial, range, processor_id, global_index_map,
                  gather_arrived, bcast_buf, notice_printed, log >>

\* Lines 214-237 on processor 0: part, vwgt and csr_graph.offsets, all
\* zero; the step into the block is recorded in log[p].graph.
BuildGraph(p) ==
  /\ pc[p] = "L213"
  /\ IsProcessorZero(p)
  /\ part' = [part EXCEPT ![p] = [i \in 1 .. Len(range[p]) |-> 0]]
  /\ csr' = [csr EXCEPT
               ![p].vwgt = [i \in 1 .. Len(range[p]) |-> 0],
               ![p].offsets = [i \in 1 .. (Len(range[p]) + 1) |-> 0]]
  /\ log' = Bump(p, "graph")
  /\ pc' = [pc EXCEPT ![p] = "L253"]
  /\ UNCHANGED << inputs, twostep, carried, is_serial, range, processor_id,
                  global_index_map, gather_arrived, bcast_buf, notice_printed >>

\* Lines 260, 309 and 370: the assertions of the first pass.
PassOneAssertionsHold(rng, gim) ==
  /\ \A e \in SeqRange(rng) : gim[e] < Len(rng) /\ AmrAssertionsHold(e)
  /\ \A a, b \in SeqRange(rng) : gim[a] = gim[b] => a = b

\* Lines 253-376: the first pass: vwgt, the row sizes and graph_size.
PassOne(p) ==
  /\ pc[p] = "L253"
  /\ IF PassOneAssertionsHold(range[p], global_index_map[p])
     THEN LET offs == PassOneOffsets(range[p], global_index_map[p], csr[p].i2b)
          IN  /\ csr' = [csr EXCEPT
                    ![p].vwgt = PassOneWeights(range[p], global_index_map[p]),
                    ![p].offsets = offs,
                    ![p].graph_size = SumSeq(offs)]
              /\ pc' = [pc EXCEPT ![p] = "L378"]
     ELSE /\ pc' = [pc EXCEPT ![p] = "failed"]
          /\ csr' = csr
  /\ UNCHANGED << inputs, twostep, carried, is_serial, range, processor_id,
                  global_index_map, part, gather_arrived, bcast_buf,
                  notice_printed, log >>

\* Line 378: csr_graph.prepare_for_use().
PrepareForUse(p) ==
  /\ pc[p] = "L378"
  /\ LET offs == PartialSums(csr[p].offsets)
     IN  csr' = [csr EXCEPT ![p].offsets = offs,
                            ![p].vals = PreparedVals(offs)]
  /\ pc' = [pc EXCEPT ![p] = "L380"]
  /\ UNCHANGED << inputs, twostep, carried, is_serial, range, processor_id,
                  global_index_map, part, gather_arrived, bcast_buf,
                  notice_printed, log >>

\* Faulty variant: the second pass is left before it has written a value.
PassTwoLeftEarly(p) ==
  /\ pc[p] = "L380"
  /\ pc' = [pc EXCEPT ![p] = "L488"]
  /\ UNCHANGED << inputs, twostep, csr, carried, is_serial, range, processor_id,
                  global_index_map, part, gather_arrived, bcast_buf,
                  notice_printed, log >>

\* Lines 380-486: the second pass, which stops at the first lookup or
\* assertion that fails, and the assertion on the size of vals.
PassTwo(p) ==
  /\ pc[p] = "L380"
  /\ IF \A e \in SeqRange(range[p]) : MapFindHolds(e, global_index_map[p])
     THEN LET writes == PassTwoWrites(range[p], global_index_map[p],
                                      csr[p].i2b, csr[p].offsets)
          IN  IF /\ WritesInVals(writes, csr[p].vals)
                 /\ GraphSizeAssertionHolds(csr[p].vals, csr[p].graph_size)
              THEN /\ csr' = [csr EXCEPT
                         ![p].vals = WrittenVals(writes, @),
                         ![p].writes = writes]
                   /\ pc' = [pc EXCEPT ![p] = "L488"]
              ELSE /\ pc' = [pc EXCEPT ![p] = "failed"]
                   /\ csr' = csr
     ELSE /\ pc' = [pc EXCEPT ![p] = "failed"]
          /\ csr' = csr
  /\ UNCHANGED << inputs, twostep, carried, is_serial, range, processor_id,
                  global_index_map, part, gather_arrived, bcast_buf,
                  notice_printed, log >>

\* Faulty variant: recursive bisection whatever the number of pieces.
EntryPointAlwaysRecursive(np) == "recursive"

\* Lines 493-509: METIS_PartGraphRecursive if n_pieces <= 8, otherwise
\* METIS_PartGraphKway.
EntryPoint(np) == IF np <= RecursiveMax THEN "recursive" ELSE "kway"

\* What the engine is called with (lines 499-503 and 515-519): n, the
\* offsets, the values, the vertex weights and nparts.
EngineInput(p) ==
  << Len(range[p]), csr[p].offsets, csr[p].vals, csr[p].vwgt, n_pieces >>

\* Lines 488-522 on processor 0: one engine call fills part.  The engine is
\* a function of its input: called again with an input it has seen, it
\* returns what it returned then.
CallEngine(p) ==
  /\ pc[p] = "L488"
  /\ \E res \in EngineResults(Len(range[p]), n_pieces) :
       /\ EngineInput(p) \in DOMAIN engine_memo
            => res = engine_memo[EngineInput(p)]
       /\ engine_memo' = [k \in DOMAIN engine_memo \cup {EngineInput(p)} |->
                            IF k = EngineInput(p) THEN res ELSE engine_memo[k]]
       /\ part' = [part EXCEPT ![p] = res]
       /\ log' = [log EXCEPT ![p].engine = @ + 1,
                             ![p].result = res,
                             ![p].entry = EntryPoint(n_pieces)]
  /\ pc' = [pc EXCEPT ![p] = "L527"]
  /\ UNCHANGED << inputs, twostep, csr, notices, history, is_serial, range,
                  processor_id, global_index_map, gather_arrived, bcast_buf,
                  notice_printed >>

\* Faulty variant: a receiving process keeps its own vector.
BroadcastKeepsLocal(p) ==
  /\ pc[p] = "L527"
  /\ IF p = 0
     THEN bcast_buf' = << part[p] >>
     ELSE bcast_buf # << >> /\ bcast_buf' = bcast_buf
  /\ log' = Bump(p, "bcast")
  /\ pc' = [pc EXCEPT ![p] = "L532"]
  /\ UNCHANGED << inputs, twostep, csr, carried, is_serial, range, processor_id, global_index_map,
                  part, gather_arrived, notice_printed >>

\* Line 527: mesh.comm().broadcast(part): the root sends its vector, every
\* other process returns with the root's vector once the root has sent it.
Broadcast(p) ==
  /\ pc[p] = "L527"
  /\ IF p = 0
     THEN /\ bcast_buf' = << part[p] >>
          /\ part' = part
     ELSE /\ bcast_buf # << >>
          /\ part' = [part EXCEPT ![p] = bcast_buf[1]]
          /\ bcast_buf' = bcast_buf
  /\ log' = Bump(p, "bcast")
  /\ pc' = [pc EXCEPT ![p] = "L532"]
  /\ UNCHANGED << inputs, twostep, csr, carried, is_serial, range, processor_id, global_index_map,
                  gather_arrived, notice_printed >>

\* Faulty variant: the assignment loop stops one element early.
AssignedOwnersSkipLast(own, rng, m, prt) ==
  [e \in DOMAIN own |->
     IF e \in SeqRange(SubSeq(rng, 1, Len(rng) - 1))
     THEN prt[m[e] + 1] ELSE own[e]]

\* Faulty variant: an element gets the entry of part at its place in the
\* iteration.
AssignedOwnersByPosition(own, rng, m, prt) ==
  [e \in DOMAIN own |->
     IF e \in SeqRange(rng) THEN prt[PosOf(rng, e)] ELSE own[e]]

\* Faulty variant: the assignment loop runs over the whole mesh and resets
\* the elements it has no index for to owner 0.
AssignedOwnersWholeMesh(own, rng, m, prt) ==
  [e \in DOMAIN own |->
     IF e \in SeqRange(rng) THEN prt[m[e] + 1] ELSE 0]

\* Lines 532-544: elem->processor_id() = part[global_index_map[elem->id()]].
AssignedOwners(own, rng, m, prt) ==
  [e \in DOMAIN own |->
     IF e \in SeqRange(rng) THEN prt[m[e] + 1] ELSE own[e]]

\* Lines 534 and 539: the assertions of the assignment loop.
AssignAssertionsHold(rng, m, prt) ==
  \A i \in DOMAIN rng : rng[i] \in DOMAIN m /\ m[rng[i]] < Len(prt)

AssignOwners(p) ==
  /\ pc[p] = "L532"
  /\ IF AssignAssertionsHold(range[p], global_index_map[p], part[p])
     THEN /\ processor_id' = [processor_id EXCEPT
               ![p] = AssignedOwners(@, range[p], global_index_map[p], part[p])]
          /\ log' = Bump(p, "assign")
          /\ pc' = [pc EXCEPT ![p] = "done"]
     ELSE /\ pc' = [pc EXCEPT ![p] = "failed"]
          /\ UNCHANGED << processor_id, log >>
  /\ UNCHANGED << inputs, twostep, csr, carried, is_serial, range, global_index_map, part,
                  gather_arrived, bcast_buf, notice_printed >>

\* Faulty variant: _do_partition hands over every element of the mesh.
DoPartitionAllElements(p) ==
  /\ pc[p] = "L553"
  /\ range' = [range EXCEPT ![p] = Ascending(LocalIds(mesh))]
  /\ log' = Bump(p, "do_partition")
  /\ pc' = [pc EXCEPT ![p] = "L74"]
  /\ UNCHANGED << inputs, twostep, csr, carried, is_serial, processor_id,
                  global_index_map, part, gather_arrived, bcast_buf,
                  notice_printed >>

\* Lines 550-557: _do_partition calls partition_range with
\* mesh.active_elements_begin() and mesh.active_elements_end().
DoPartition(p) ==
  /\ pc[p] = "L553"
  /\ range' = [range EXCEPT ![p] = Ascending(ActiveIds(mesh))]
  /\ log' = Bump(p, "do_partition")
  /\ pc' = [pc EXCEPT ![p] = "L74"]
  /\ UNCHANGED << inputs, twostep, csr, carried, is_serial, processor_id,
                  global_index_map, part, gather_arrived, bcast_buf,
                  notice_printed >>

\* Lines 69-72: partition_range is called again, with an n_pieces of the
\* caller's choice, once the call before has returned on every process.
\* The locals of the call are new; the mesh with its owners, the static
\* flag of libmesh_do_once and what was printed stay.
CallAgain ==
  /\ \A p \in Procs : pc[p] = "done"
  /\ Len(history) < MaxCalls - 1
  /\ history' = Append(history, [n_pieces |-> n_pieces,
                                  owners |-> processor_id, log |-> log])
  /\ n_pieces' \in 0 .. MaxPieces
  /\ pc' = [p \in Procs |-> "L74"]
  /\ global_index_map' = [p \in Procs |-> EmptyMap]
  /\ part' = [p \in Procs |-> << >>]
  /\ gather_arrived' = {}
  /\ bcast_buf' = << >>
  /\ log' = [p \in Procs |-> NewLog]
  /\ csr' = [p \in Procs |-> NewCsr]
  /\ UNCHANGED << twostep, n_processors, have_metis, enable_unique_id, mesh_range,
                  hint, mesh, serial_at_entry, is_serial, range, processor_id,
                  notice_printed, notices, engine_memo >>

\* ------------------------------------------------- TwostepTimeSolver::solve
\* twostep holds the system's time and deltat, the members of the solver and
\* the locals of solve().  Times are whole multiples of a unit small enough
\* for every halving of a run to be exact.
RECURSIVE Pow2(_)
Pow2(k) == IF k = 0 THEN 1 ELSE 2 * Pow2(k - 1)

\* An iteration halves deltat at most twice for good (the core solver
\* after a failure, the retry) and once more for the half steps.
FirstDeltat == Pow2(2 * MaxRetries + 2)

\* calculate_norm: zero or not.
Norms == 0 .. 1

\* relative_error, in units of the tolerance.
Errors == 0 .. 2

NoSolve ==
  [at |-> "idle", first_solve |-> TRUE, time |-> 0, deltat |-> 0,
   old_time |-> 0, old_deltat |-> 0, double_norm |-> 0, single_norm |-> 0,
   relative_error |-> 0, upper_tolerance |-> 0,
   reduce_deltat_on_diffsolver_failure |-> 0, core_reduce |-> 0,
   last_deltat |-> 0, completed_timestep_size |-> 0,
   max_tolerance_met |-> FALSE, retries |-> 0, loop_time |-> 0]

\* The variables of the partitioner, which the time solver never touches.
partitioner == << inputs, carried, csr, is_serial, range, processor_id, pc,
                  global_index_map, part, gather_arrived, bcast_buf,
                  notice_printed, log >>

\* core_time_solver->solve(): leaves system.time alone; after a failure of
\* the nonlinear solver it may halve deltat, if it was asked to.
CoreSolveDeltats(dt, reduce) ==
  IF reduce > 0 /\ dt >= 4 THEN {dt, dt \div 2} ELSE {dt}

\* core_time_solver->advance_timestep() (line 132: "Increment
\* system.time"): system.time += system.deltat.
CoreAdvanceTimestep(t, dt) == t + dt

\* Lines 54-79: the first solve stores the initial conditions
\* (advance_timestep() with first_solve set); the locals are declared.
\* loop_time remembers system.time at the start of the retry loop.
SolveBegin ==
  /\ twostep.at = "L54"
  /\ twostep' = [twostep EXCEPT !.first_solve = FALSE,
                                !.max_tolerance_met = FALSE,
                                !.loop_time = twostep.time,
                                !.at = "L81"]
  /\ UNCHANGED partitioner

\* Lines 81-112: the double-length step and its norm.
DoubleSolve ==
  /\ twostep.at = "L81"
  /\ ~ twostep.max_tolerance_met
  /\ \E dt \in CoreSolveDeltats(twostep.deltat,
                                 twostep.reduce_deltat_on_diffsolver_failure),
        nrm \in Norms :
       twostep' = [twostep EXCEPT
                     !.core_reduce = twostep.reduce_deltat_on_diffsolver_failure,
                     !.deltat = dt,
                     !.double_norm = nrm,
                     !.at = "L120"]
  /\ UNCHANGED partitioner

\* Lines 120-133: old_time and old_deltat are saved, deltat is halved, the
\* first half step is solved and the core solver advances the time.
HalfStep ==
  /\ twostep.at = "L120"
  /\ LET half == twostep.deltat \div 2
     IN  twostep' = [twostep EXCEPT
                       !.core_reduce = 0,
                       !.old_time = twostep.time,
                       !.old_deltat = twostep.deltat,
                       !.deltat = half,
                       !.last_deltat = half,
                       !.time = CoreAdvanceTimestep(twostep.time, half),
                       !.at = "L135"]
  /\ UNCHANGED partitioner

\* Lines 135-151: the second half step, its norm and the relative error.
SingleSolve ==
  /\ twostep.at = "L135"
  /\ \E nrm \in Norms, err \in Errors :
       twostep' = [twostep EXCEPT
                     !.single_norm = nrm,
                     !.core_reduce = twostep.reduce_deltat_on_diffsolver_failure,
                     !.relative_error = err,
                     !.at = "L154"]
  /\ UNCHANGED partitioner

\* Lines 154-155: if (!double_norm && !single_norm) return.
EarlyReturn ==
  /\ twostep.at = "L154"
  /\ twostep.double_norm = 0 /\ twostep.single_norm = 0
  /\ twostep' = [twostep EXCEPT !.at = "done"]
  /\ UNCHANGED partitioner

\* Lines 173-174: a negative upper tolerance is set from the first error.
UpperTolerance(ts) ==
  IF ts.upper_tolerance < 0
  THEN (0 - ts.upper_tolerance) * ts.relative_error
  ELSE ts.upper_tolerance

\* Line 178: the upper error tolerance is not met.
MustRetry(ts) ==
  UpperTolerance(ts) # 0 /\ ts.relative_error > UpperTolerance(ts)

\* Lines 178-210: the time step is repeated with half the deltat:
\* system.time = old_time, system.deltat = old_deltat / 2.
RetryTimestep ==
  /\ twostep.at = "L154"
  /\ ~ (twostep.double_norm = 0 /\ twostep.single_norm = 0)
  /\ MustRetry(twostep)
  /\ twostep.retries < MaxRetries
  /\ twostep' = [twostep EXCEPT
                   !.upper_tolerance = UpperTolerance(twostep),
                   !.time = twostep.old_time,
                   !.deltat = twostep.old_deltat \div 2,
                   !.retries = @ + 1,
                   !.at = "L81"]
  /\ UNCHANGED partitioner

\* Lines 211-214: max_tolerance_met = true ends the loop.
ToleranceMet ==
  /\ twostep.at = "L154"
  /\ ~ (twostep.double_norm = 0 /\ twostep.single_norm = 0)
  /\ ~ MustRetry(twostep)
  /\ twostep' = [twostep EXCEPT
                   !.upper_tolerance = UpperTolerance(twostep),
                   !.max_tolerance_met = TRUE,
                   !.at = "L218"]
  /\ UNCHANGED partitioner

\* Lines 232-291: deltat for the next time step: old_deltat times the
\* shrink or growth factor, within min_deltat and max_deltat.
NextDeltats(dt) == {dt \div 2, dt, 2 * dt}

\* Lines 216-291: last_deltat and completed_timestep_size are set,
\* system.time = old_time, and deltat is chosen for the next time step.
FinishSolve ==
  /\ twostep.at = "L218"
  /\ \E dt \in NextDeltats(twostep.old_deltat) :
       twostep' = [twostep EXCEPT
                     !.last_deltat = twostep.deltat,
                     !.completed_timestep_size = 2 * twostep.deltat,
                     !.time = twostep.old_time,
                     !.deltat = dt,
                     !.at = "done"]
  /\ UNCHANGED partitioner

\* ------------------------------------------------------------ specification
\* The hints find_global_indices may return for the range: values in
\* [0,n), distinct when unique ids are enabled (lines 129-130).
HintsFor(n, rng, uniq) ==
  { h \in [0 .. (n - 1) -> 0 .. (n - 1)] :
      /\ \A e \in 0 .. (n - 1) :
           IF e \in SeqRange(rng) THEN h[e] < Len(rng) ELSE h[e] = 0
      /\ uniq => \A i, j \in DOMAIN rng : h[rng[i]] = h[rng[j]] => i = j }

InitPartitionLocals(n, at) ==
  /\ processor_id = [p \in Procs |-> [e \in 0 .. (n - 1) |-> OldOwner]]
  /\ pc = [p \in Procs |-> at]
  /\ global_index_map = [p \in Procs |-> EmptyMap]
  /\ part = [p \in Procs |-> << >>]
  /\ gather_arrived = {}
  /\ bcast_buf = << >>
  /\ notice_printed = [p \in Procs |-> FALSE]
  /\ log = [p \in Procs |-> NewLog]
  /\ csr = [p \in Procs |-> NewCsr]
  /\ notices = [p \in Procs |-> 0]
  /\ engine_memo = EmptyMap
  /\ history = << >>

\* No time solver is at work while the partitioner is.
InitLocalsAt(n, at) == InitPartitionLocals(n, at) /\ twostep = NoSolve

InitLocals(n) == InitLocalsAt(n, "L74")

\* One collective call of partition_range on every process of the
\* communicator: a replicated mesh has the same range everywhere, a
\* distributed mesh shows each process its own part of it.
Init ==
  /\ n_processors \in 1 .. MaxProcs
  /\ n_pieces \in 0 .. MaxPieces
  /\ have_metis \in BOOLEAN
  /\ enable_unique_id \in BOOLEAN
  /\ mesh_range \in MeshRanges(MaxElem)
  /\ hint \in HintsFor(MaxElem, mesh_range, enable_unique_id)
  /\ mesh = ChainMesh(MaxElem)
  /\ serial_at_entry \in BOOLEAN
  /\ is_serial = [p \in Procs |-> serial_at_entry]
  /\ range \in IF serial_at_entry THEN { [p \in Procs |-> mesh_range] }
               ELSE [Procs -> SubSeqsOf(mesh_range)]
  /\ InitLocals(MaxElem)

Next ==
  \/ \E p \in Procs : ReturnEmpty(p)
  \/ \E p \in Procs : SinglePartition(p)
  \/ \E p \in Procs : AssertPiecesFails(p)
  \/ \E p \in Procs : WarnAndGather(p)
  \/ \E p \in Procs : AllgatherReturns(p)
  \/ \E p \in Procs : SkipGather(p)
  \/ \E p \in Procs : FallbackSfc(p)
  \/ \E p \in Procs : BuildIndexMap(p)
  \/ \E p \in Procs : BuildInteriorMap(p)
  \/ \E p \in Procs : SkipProcessorZeroBlock(p)
  \/ \E p \in Procs : BuildGraph(p)
  \/ \E p \in Procs : PassOne(p)
  \/ \E p \in Procs : PrepareForUse(p)
  \/ \E p \in Procs : PassTwo(p)
  \/ \E p \in Procs : CallEngine(p)
  \/ \E p \in Procs : Broadcast(p)
  \/ \E p \in Procs : AssignOwners(p)

Spec == Init /\ [][Next]_vars

\* The global index assigner alone, run on two containers that hold the
\* same elements of a serial mesh, each in an order of its own.
InitIndex ==
  /\ n_processors = 2
  /\ n_pieces = 2
  /\ have_metis = TRUE
  /\ enable_unique_id \in BOOLEAN
  /\ mesh_range \in MeshRanges(MaxIndexElem)
  /\ hint \in HintsFor(MaxIndexElem, mesh_range, enable_unique_id)
  /\ mesh = ChainMesh(MaxIndexElem)
  /\ serial_at_entry = TRUE
  /\ is_serial = [p \in Procs |-> TRUE]
  /\ range \in [Procs -> Perms(SeqRange(mesh_range))]
  /\ InitLocals(MaxIndexElem)

NextIndex ==
  \/ \E p \in Procs : ReturnEmpty(p)
  \/ \E p \in Procs : SkipGather(p)
  \/ \E p \in Procs : BuildIndexMap(p)

SpecIndex == InitIndex /\ [][NextIndex]_vars

\* Calls of partition_range one after the other on one process, on one
\* serial mesh and the same range, each with an n_pieces of its own.
InitCalls ==
  /\ n_processors = 1
  /\ n_pieces \in 0 .. MaxPieces
  /\ have_metis \in BOOLEAN
  /\ enable_unique_id \in BOOLEAN
  /\ mesh_range \in MeshRanges(MaxElem)
  /\ hint \in HintsFor(MaxElem, mesh_range, enable_unique_id)
  /\ mesh = ChainMesh(MaxElem)
  /\ serial_at_entry = TRUE
  /\ is_serial = [p \in Procs |-> TRUE]
  /\ range = [p \in Procs |-> mesh_range]
  /\ InitLocals(MaxElem)

NextCalls ==
  \/ \E p \in Procs : ReturnEmpty(p)
  \/ \E p \in Procs : SinglePartition(p)
  \/ \E p \in Procs : AssertPiecesFails(p)
  \/ \E p \in Procs : SkipGather(p)
  \/ \E p \in Procs : FallbackSfc(p)
  \/ \E p \in Procs : BuildIndexMap(p)
  \/ \E p \in Procs : BuildInteriorMap(p)
  \/ \E p \in Procs : BuildGraph(p)
  \/ \E p \in Procs : PassOne(p)
  \/ \E p \in Procs : PrepareForUse(p)
  \/ \E p \in Procs : PassTwo(p)
  \/ \E p \in Procs : CallEngine(p)
  \/ \E p \in Procs : Broadcast(p)
  \/ \E p \in Procs : AssignOwners(p)
  \/ CallAgain

SpecCalls == InitCalls /\ [][NextCalls]_vars

\* The meshes the graph builder is run on: chains and grids up to the
\* bounds, refined meshes, meshes with lower-dimensional elements, and a
\* corrupt one; each without and with weights attached.
PlainMeshes ==
  { ChainMesh(n) : n \in 1 .. MaxElem }
    \cup { GridMesh(nx, ny) : nx \in 1 .. MaxGrid, ny \in 1 .. MaxGrid }
    \cup { QuadAmrMesh, EdgeAmrMesh, BoundaryNodesMesh, BoundaryMesh,
           SelfLoopMesh }

GraphMeshes ==
  PlainMeshes
    \cup { WithWeights(m, [e \in LocalIds(m) |-> e + 1]) : m \in PlainMeshes }

\* The hints find_global_indices returns for the range in these runs: the
\* range in its own order, the range in reverse, and (where the build lets
\* hints collide) the same hint for every element.
GraphHints(m, rng, uniq) ==
  { [e \in LocalIds(m) |->
       IF e \in SeqRange(rng) THEN PosOf(rng, e) - 1 ELSE 0],
    [e \in LocalIds(m) |->
       IF e \in SeqRange(rng) THEN Len(rng) - PosOf(rng, e) ELSE 0] }
    \cup IF uniq THEN {} ELSE { [e \in LocalIds(m) |-> 0] }

\* The graph builder alone, on processor 0 of a serial mesh: any mesh of
\* GraphMeshes and any range of its elements, active or not, in id order.
InitGraph ==
  /\ n_processors = 1
  /\ n_pieces = 2
  /\ have_metis = TRUE
  /\ enable_unique_id \in BOOLEAN
  /\ mesh \in GraphMeshes
  /\ mesh_range \in SubSeqsOf(Ascending(LocalIds(mesh)))
  /\ hint \in GraphHints(mesh, mesh_range, enable_unique_id)
  /\ serial_at_entry = TRUE
  /\ is_serial = [p \in Procs |-> TRUE]
  /\ range = [p \in Procs |-> mesh_range]
  /\ InitLocals(Cardinality(LocalIds(mesh)))

NextGraph ==
  \/ \E p \in Procs : ReturnEmpty(p)
  \/ \E p \in Procs : SkipGather(p)
  \/ \E p \in Procs : BuildIndexMap(p)
  \/ \E p \in Procs : BuildInteriorMap(p)
  \/ \E p \in Procs : BuildGraph(p)
  \/ \E p \in Procs : PassOne(p)
  \/ \E p \in Procs : PrepareForUse(p)
  \/ \E p \in Procs : PassTwo(p)

SpecGraph == InitGraph /\ [][NextGraph]_vars

\* _do_partition on one process of a serial mesh, refined or not, with
\* the engine.
InitWhole ==
  /\ n_processors = 1
  /\ n_pieces \in 1 .. MaxPieces
  /\ have_metis = TRUE
  /\ enable_unique_id \in BOOLEAN
  /\ mesh \in { ChainMesh(MaxElem), QuadAmrMesh, EdgeAmrMesh,
                 BoundaryNodesMesh }
  /\ mesh_range = Ascending(ActiveIds(mesh))
  /\ hint \in GraphHints(mesh, mesh_range, enable_unique_id)
  /\ serial_at_entry = TRUE
  /\ is_serial = [p \in Procs |-> TRUE]
  /\ range = [p \in Procs |-> << >>]
  /\ InitLocalsAt(Cardinality(LocalIds(mesh)), "L553")

NextWhole ==
  \/ \E p \in Procs : DoPartition(p)
  \/ \E p \in Procs : SinglePartition(p)
  \/ \E p \in Procs : SkipGather(p)
  \/ \E p \in Procs : BuildIndexMap(p)
  \/ \E p \in Procs : BuildInteriorMap(p)
  \/ \E p \in Procs : BuildGraph(p)
  \/ \E p \in Procs : PassOne(p)
  \/ \E p \in Procs : PrepareForUse(p)
  \/ \E p \in Procs : PassTwo(p)
  \/ \E p \in Procs : CallEngine(p)
  \/ \E p \in Procs : Broadcast(p)
  \/ \E p \in Procs : AssignOwners(p)

SpecWhole == InitWhole /\ [][NextWhole]_vars

\* ------------------------------------------------------------------ claims
Returned(p) == pc[p] = "done"

\* The process went down the graph-partition path (Metis present, past the
\* easy returns and the gather).
OnGraphPath(p) == log[p].index = 1

IsBijection(m, S, n) ==
  /\ DOMAIN m = S
  /\ { m[e] : e \in S } = 0 .. (n - 1)
  /\ \A a, b \in S : m[a] = m[b] => a = b

HasDuplicateHints(rng) ==
  \E i, j \in DOMAIN rng : i # j /\ hint[rng[i]] = hint[rng[j]]

\* C1 (partition coverage): once partition_range has returned on a process
\* for a non-empty range and n_pieces >= 1, every element of the range has
\* a processor_id in [0, n_pieces).
PartitionCoverage ==
  \A p \in Procs :
    (Returned(p) /\ n_pieces >= 1) =>
      \A e \in SeqRange(range[p]) :
        processor_id[p][e] \in 0 .. (n_pieces - 1)

\* C1 witness: a process has returned from the graph path with two
\* elements, and both partition ids are in use.
PartitionCoverageWitness ==
  \E p \in Procs :
    /\ Returned(p) /\ log[p].assign = 1 /\ n_pieces = 2
    /\ Len(range[p]) = 2
    /\ { processor_id[p][e] : e \in SeqRange(range[p]) } = {0, 1}

\* C2 (trivial case): with n_pieces = 1 a process never gathers, builds no
\* index map and no graph, calls neither the engine nor the fallback nor the
\* broadcast, and once it has returned for a non-empty range every element
\* of the range has owner 0 and every other element its old owner.
TrivialCase ==
  n_pieces = 1 =>
    /\ gather_arrived = {} /\ bcast_buf = << >>
    /\ \A p \in Procs :
         /\ global_index_map[p] = EmptyMap /\ part[p] = << >>
         /\ ~ notice_printed[p]
         /\ is_serial[p] = serial_at_entry
         /\ log[p] \in { NewLog, [NewLog EXCEPT !.single = 1] }
         /\ (Returned(p) /\ range[p] # << >>) =>
              /\ log[p].single = 1
              /\ \A e \in ElemIds :
                   processor_id[p][e] =
                     IF e \in SeqRange(range[p]) THEN 0 ELSE OldOwner

\* C2 witness: a process of a distributed mesh has returned from the
\* n_pieces = 1 call on a range that is not the whole mesh.
TrivialCaseWitness ==
  \E p \in Procs :
    /\ n_pieces = 1 /\ ~ serial_at_entry /\ Returned(p)
    /\ Len(range[p]) = 1 /\ Len(mesh_range) = 2
    /\ \A e \in SeqRange(range[p]) : processor_id[p][e] = 0

\* C3 (bijection): the global index map a process has built maps the ids of
\* its range one-to-one onto 0 .. n-1.
IndexMapBijection ==
  \A p \in Procs :
    OnGraphPath(p) =>
      /\ pc[p] # "failed"
      /\ IsBijection(global_index_map[p], SeqRange(range[p]), Len(range[p]))

\* C3 witness: a map has been built for three elements, two of which share
\* a hint.
IndexMapBijectionWitness ==
  \E p \in Procs :
    /\ OnGraphPath(p) /\ Len(range[p]) = 3
    /\ HasDuplicateHints(range[p])
    /\ \E e \in SeqRange(range[p]) : global_index_map[p][e] # hint[e]

\* C4 (order independence), as claimed: two containers holding the same
\* elements in any two orders get the same global index map.
IndexOrderIndependent ==
  \A p, q \in Procs :
    (OnGraphPath(p) /\ OnGraphPath(q)) =>
      global_index_map[p] = global_index_map[q]

\* C5 (duplicate hints): when elements of the range share a hint, the map
\* built is a bijection onto 0 .. n-1 that differs from the hints, and any
\* other run over the same range in the same order builds the same map.
DuplicateHintCorrect ==
  \A p \in Procs :
    (OnGraphPath(p) /\ HasDuplicateHints(range[p])) =>
      /\ IsBijection(global_index_map[p], SeqRange(range[p]), Len(range[p]))
      /\ global_index_map[p] # DirectMap(range[p], FindGlobalIndices(range[p]))
      /\ \A q \in Procs :
           (OnGraphPath(q) /\ range[q] = range[p]) =>
             global_index_map[q] = global_index_map[p]

\* C5 witness: two runs over the same three elements in the same order, two
\* hint buckets of which one holds two elements, both maps built.
DuplicateHintWitness ==
  \E p, q \in Procs :
    /\ p # q /\ OnGraphPath(p) /\ OnGraphPath(q)
    /\ range[p] = range[q] /\ Len(range[p]) = 3
    /\ HasDuplicateHints(range[p])
    /\ Cardinality({ hint[e] : e \in SeqRange(range[p]) }) = 2

\* C6 (single-process compute): only processor 0 builds the graph and calls
\* the engine, at most once each, and exactly once by the time processor 0
\* reaches the broadcast on the graph path.
SingleProcessCompute ==
  /\ \A p \in Procs \ {0} : log[p].engine = 0 /\ log[p].graph = 0
  /\ log[0].engine <= 1 /\ log[0].graph <= 1
  /\ log[0].engine = 1 => log[0].graph = 1
  /\ (OnGraphPath(0) /\ pc[0] \in {"L527", "L532", "done"}) =>
       log[0].engine = 1

\* C6 witness: two processes have both returned from the graph path.
SingleProcessComputeWitness ==
  /\ n_processors = 2
  /\ \A p \in Procs : Returned(p) /\ log[p].assign = 1
  /\ log[0].engine = 1 /\ log[1].engine = 0

\* C7 (broadcast discipline): on the graph path every process calls the
\* broadcast at most once and exactly once before it writes an owner or
\* returns; processor 0 calls it after its engine call, the others without
\* having built a graph or called the engine.
BroadcastDiscipline ==
  \A p \in Procs :
    /\ log[p].bcast <= 1
    /\ log[p].bcast = 1 => OnGraphPath(p)
    /\ (OnGraphPath(p) /\ log[p].bcast = 0) =>
         /\ log[p].assign = 0
         /\ processor_id[p] = [e \in ElemIds |-> OldOwner]
         /\ ~ Returned(p)
    /\ (log[p].bcast = 1 /\ p = 0) => log[p].engine = 1
    /\ (log[p].bcast = 1 /\ p # 0) => log[p].engine = 0 /\ log[p].graph = 0

\* C7 witness: a process other than processor 0 has written owners after
\* its broadcast, and processor 0 has broadcast after its engine call.
BroadcastDisciplineWitness ==
  \E p \in Procs :
    /\ p # 0 /\ log[p].assign = 1 /\ log[p].bcast = 1
    /\ log[0].bcast = 1 /\ log[0].engine = 1
    /\ range[p] # << >>

\* C8 (no collective skipped), as claimed: with n_pieces > 1, when one
\* process has entered the gather or the broadcast, no process of the
\* communicator has returned from the call without entering it.
NoCollectiveSkipped ==
  n_pieces > 1 =>
    \A p, q \in Procs :
      /\ (log[p].gather = 1 /\ Returned(q)) => log[q].gather = 1
      /\ (log[p].bcast = 1 /\ Returned(q)) => log[q].bcast = 1

\* C9 (cross-process agreement): when every process has returned from the
\* graph path on a replicated mesh, each element of the range has on every
\* process the partition id processor 0's engine call produced for the
\* element's global index.
CrossProcessAgreement ==
  (serial_at_entry /\ \A p \in Procs : Returned(p) /\ OnGraphPath(p)) =>
    \A p \in Procs : \A e \in SeqRange(range[p]) :
      processor_id[p][e] = log[0].result[global_index_map[0][e] + 1]

\* C9 witness: two processes of a replicated mesh have returned and the
\* engine used both partition ids.
CrossProcessAgreementWitness ==
  /\ n_processors = 2 /\ serial_at_entry
  /\ \A p \in Procs : Returned(p) /\ OnGraphPath(p)
  /\ { log[0].result[i] : i \in DOMAIN log[0].result } = {0, 1}

\* C10 (distributed mesh recovery): a call with n_pieces > 1 does not fail;
\* on a mesh that is serial at entry no process gathers or warns; on a
\* mesh that is not, a process computes no global index, builds no graph
\* and calls no partitioner before its gather has returned (with exactly
\* one warning), and a process that has returned after the gather has run
\* the pipeline.
DistributedMeshRecovery ==
  n_pieces > 1 =>
    \A p \in Procs :
      /\ pc[p] # "failed"
      /\ log[p].gather = log[p].warn /\ log[p].gather <= 1
      /\ serial_at_entry => log[p].gather = 0
      /\ (~ serial_at_entry /\ (log[p].gather = 0 \/ pc[p] = "L90")) =>
           /\ log[p].index = 0 /\ log[p].graph = 0 /\ log[p].engine = 0
           /\ log[p].sfc = 0 /\ log[p].bcast = 0 /\ log[p].assign = 0
           /\ global_index_map[p] = EmptyMap
           /\ processor_id[p] = [e \in ElemIds |-> OldOwner]
      /\ (Returned(p) /\ log[p].gather = 1) =>
           IF have_metis THEN log[p].assign = 1 ELSE log[p].sfc = 1

\* C10 witness: a process of a distributed mesh has gathered, warned once
\* and returned from the graph path.
DistributedMeshRecoveryWitness ==
  \E p \in Procs :
    /\ ~ serial_at_entry /\ n_pieces > 1 /\ n_processors = 2
    /\ Returned(p) /\ log[p].gather = 1 /\ log[p].warn = 1
    /\ log[p].assign = 1

\* The calls that have returned, the one in progress included once it has.
ReturnedCalls ==
  IF \A p \in Procs : Returned(p)
  THEN Append(history, [n_pieces |-> n_pieces, owners |-> processor_id,
                        log |-> log])
  ELSE history

\* C11 (fallback): without the engine a call builds no index map and no
\* graph, calls neither the engine nor the broadcast, and once it has
\* returned for a non-empty range and n_pieces > 1 it has called the
\* space-filling-curve partitioner once and the owners are the ones that
\* partitioner gives for this range and n_pieces; the notice has been
\* printed at most once by a process, however many calls it has made, and
\* once if one of them has reached the fallback.
FallbackDelegates ==
  ~ have_metis =>
    /\ bcast_buf = << >> /\ engine_memo = EmptyMap
    /\ \A p \in Procs :
         /\ global_index_map[p] = EmptyMap /\ part[p] = << >>
         /\ csr[p] = NewCsr
         /\ log[p].index = 0 /\ log[p].graph = 0 /\ log[p].engine = 0
         /\ log[p].bcast = 0
         /\ notices[p] <= 1
         /\ (notices[p] = 1) <=>
              (\/ log[p].sfc = 1
               \/ \E i \in DOMAIN history : history[i].log[p].sfc = 1)
         /\ (Returned(p) /\ n_pieces > 1 /\ range[p] # << >>) =>
              /\ log[p].sfc = 1
              /\ processor_id[p] =
                   SfcPartitionRange(processor_id[p], range[p], n_pieces)

\* C11 witness: the third call in a row has returned from the fallback on
\* a range of two elements, and the notice was printed once.
FallbackDelegatesWitness ==
  /\ ~ have_metis /\ Len(history) = 2
  /\ \A i \in DOMAIN history : history[i].log[0].sfc = 1
  /\ Returned(0) /\ log[0].sfc = 1 /\ Len(range[0]) = 2
  /\ notices[0] = 1

\* C12 (n_pieces = 0): with n_pieces = 0 no call returns, whatever the
\* range, no owner is changed and no collective is entered.
ZeroPiecesHalts ==
  n_pieces = 0 =>
    /\ gather_arrived = {} /\ bcast_buf = << >>
    /\ \A p \in Procs :
         /\ ~ Returned(p)
         /\ \A e \in ElemIds : processor_id[p][e] = OldOwner

\* C14 (statelessness): of the calls that have returned on one mesh and
\* range, any two with the same n_pieces have left the same owner on every
\* element of the range, whatever calls came before or between them.
CallsIndependent ==
  \A i, j \in DOMAIN ReturnedCalls :
    ReturnedCalls[i].n_pieces = ReturnedCalls[j].n_pieces =>
      \A p \in Procs : \A e \in SeqRange(range[p]) :
        ReturnedCalls[i].owners[p][e] = ReturnedCalls[j].owners[p][e]

\* C14 witness: a call with n_pieces = 2 that used both partition ids on
\* the graph path, then a call with n_pieces = 1, then the call with
\* n_pieces = 2 has returned again from the graph path.
CallsIndependentWitness ==
  /\ Len(history) = 2
  /\ history[1].n_pieces = 2 /\ history[1].log[0].assign = 1
  /\ { history[1].owners[0][e] : e \in SeqRange(range[0]) } = {0, 1}
  /\ history[2].n_pieces = 1 /\ history[2].log[0].single = 1
  /\ n_pieces = 2 /\ Returned(0) /\ log[0].assign = 1

\* The graph is built: processor 0 stands before the engine call.
GraphBuilt(p) == pc[p] = "L488"

\* The values the second pass wrote into the row of the element e.
RowValues(p, e) ==
  LET g == global_index_map[p][e]
  IN  { w[2] : w \in { v \in csr[p].writes :
                         /\ v[1] > csr[p].offsets[g + 1]
                         /\ v[1] <= csr[p].offsets[g + 2] } }

HasSelfLoop(e) ==
  \E s \in DOMAIN mesh.elem[e].neighbors : mesh.elem[e].neighbors[s] = e

\* C13 (self-loop): when an element of the range has itself as a face
\* neighbor, the graph construction does not complete and no row lists its
\* own vertex.
SelfLoopHalts ==
  \A p \in Procs :
    (\E e \in SeqRange(range[p]) : HasSelfLoop(e)) =>
      /\ ~ GraphBuilt(p)
      /\ csr[p].writes # {} =>
           \A e \in SeqRange(range[p]) :
             global_index_map[p][e] \notin RowValues(p, e)

\* C15 (_do_partition): once _do_partition has returned with n_pieces >= 1
\* the range partition_range was given is the active elements of the mesh,
\* every active element has an owner in [0, n_pieces) and every inactive
\* element the owner it had.
DoPartitionActiveOnly ==
  \A p \in Procs :
    (log[p].do_partition = 1 /\ Returned(p) /\ n_pieces >= 1) =>
      /\ SeqRange(range[p]) = ActiveIds(mesh)
      /\ \A e \in LocalIds(mesh) :
           IF mesh.elem[e].active
           THEN processor_id[p][e] \in 0 .. (n_pieces - 1)
           ELSE processor_id[p][e] = OldOwner

\* C15 witness: _do_partition has returned from the graph path on a mesh
\* with inactive elements, and both partition ids are in use.
DoPartitionActiveOnlyWitness ==
  \E p \in Procs :
    /\ log[p].do_partition = 1 /\ Returned(p) /\ log[p].assign = 1
    /\ LocalIds(mesh) # ActiveIds(mesh)
    /\ { processor_id[p][e] : e \in ActiveIds(mesh) } = {0, 1}

\* The width the first pass gave the row of e.
RowWidth(p, e) ==
  csr[p].offsets[global_index_map[p][e] + 2]
    - csr[p].offsets[global_index_map[p][e] + 1]

\* C16 (pass agreement): when the graph is built, the second pass has
\* written as many values for every element as the first pass counted for
\* it, and every position of vals that belongs to a row has been written.
PassesAgree ==
  \A p \in Procs :
    GraphBuilt(p) =>
      /\ \A e \in SeqRange(range[p]) :
           Len(RowConnections(e, global_index_map[p], csr[p].i2b))
             = RowWidth(p, e)
      /\ { w[1] : w \in csr[p].writes }
           = 1 .. csr[p].offsets[Len(range[p]) + 1]

\* C17 (adjacency values in range): the graph construction never fails on
\* a lookup, and every value it writes is the global index of an element
\* of the range.
AdjacencyInRange ==
  \A p \in Procs :
    /\ pc[p] # "failed"
    /\ \A w \in csr[p].writes :
         /\ w[2] \in 0 .. (Len(range[p]) - 1)
         /\ \E e \in SeqRange(range[p]) : global_index_map[p][e] = w[2]

\* The element e and its descendants of every level.
RECURSIVE Family(_)
Family(e) ==
  {e} \cup UNION { Family(mesh.elem[e].children[i]) :
                     i \in DOMAIN mesh.elem[e].children }

\* c has e as its neighbor on the side on which nb has e.
TouchesOnSharedSide(c, nb, e) ==
  \E ns \in DOMAIN mesh.elem[nb].neighbors :
    /\ mesh.elem[nb].neighbors[ns] = e
    /\ ns \in DOMAIN mesh.elem[c].neighbors
    /\ mesh.elem[c].neighbors[ns] = e

GraphPrepared(p) == pc[p] \in {"L380", "L488"}

\* Every element is active and none has an interior parent.
IsConforming(m) ==
  \A e \in DOMAIN m.elem :
    /\ m.elem[e].local /\ m.elem[e].active
    /\ ~ m.elem[e].interior_parent

NonNullSides(e) ==
  Cardinality({ s \in DOMAIN mesh.elem[e].neighbors :
                  mesh.elem[e].neighbors[s] # Null })

\* C19 (shape of the graph): once prepare_for_use has returned, offsets
\* has n + 1 entries, starts at 0 and does not decrease, and the row of
\* the element with global index g is as wide as the neighbors counted
\* for it; on an unrefined conforming mesh partitioned as a whole that is
\* the number of its sides with a neighbor, and on the 2 x 2 quad grid
\* every row has width 2 and the rows hold 8 entries.
CsrShape ==
  \A p \in Procs :
    GraphPrepared(p) =>
      LET offs == csr[p].offsets
          n    == Len(range[p])
      IN  /\ Len(offs) = n + 1
          /\ offs[1] = 0
          /\ \A i \in 1 .. n :
               /\ offs[i] <= offs[i + 1]
               /\ offs[i + 1] - offs[i] =
                    NumNeighbors(ElemAt(range[p], global_index_map[p], i - 1),
                                 global_index_map[p], csr[p].i2b)
          /\ (IsConforming(mesh) /\ SeqRange(range[p]) = LocalIds(mesh)) =>
               \A e \in SeqRange(range[p]) : RowWidth(p, e) = NonNullSides(e)
          /\ (mesh.elem = GridMesh(2, 2).elem /\ n = 4) =>
               /\ \A e \in SeqRange(range[p]) : RowWidth(p, e) = 2
               /\ offs[n + 1] = 8

\* C19 witness: prepare_for_use has returned for the whole 2 x 2 grid.
CsrShapeWitness ==
  \E p \in Procs :
    /\ pc[p] = "L380"
    /\ mesh.elem = GridMesh(2, 2).elem
    /\ Len(range[p]) = 4
    /\ csr[p].offsets = << 0, 2, 4, 6, 8 >>

\* C20 (degenerate graph): once prepare_for_use has returned, vals has one
\* slot if no neighbor was counted and as many slots as neighbors were
\* counted otherwise; it is not empty when the engine is called.
DegenerateSafeguard ==
  \A p \in Procs :
    GraphPrepared(p) =>
      LET total == csr[p].offsets[Len(range[p]) + 1]
      IN  /\ total = csr[p].graph_size
          /\ Len(csr[p].vals) = IF total = 0 THEN 1 ELSE total
          /\ csr[p].vals # << >>

\* C20 witness: the graph is built for two elements that are not
\* neighbors: no neighbor was counted and vals has its one slot.
DegenerateSafeguardWitness ==
  \E p \in Procs :
    /\ GraphBuilt(p)
    /\ Len(range[p]) = 2
    /\ csr[p].graph_size = 0
    /\ Len(csr[p].vals) = 1

\* C29 (empty range): a process whose range is empty has done nothing but
\* return: it has entered no gather, printed no warning or notice, built
\* nothing, called neither the engine nor the fallback nor the broadcast,
\* and no owner on it has changed, whatever n_pieces is.
EmptyRangeReturns ==
  \A p \in Procs :
    range[p] = << >> =>
      /\ pc[p] \in {"L74", "done"}
      /\ log[p] = NewLog
      /\ p \notin gather_arrived
      /\ is_serial[p] = serial_at_entry
      /\ notices[p] = 0 /\ ~ notice_printed[p]
      /\ global_index_map[p] = EmptyMap /\ part[p] = << >>
      /\ csr[p] = NewCsr
      /\ \A e \in ElemIds : processor_id[p][e] = OldOwner

\* C29 witness: a process of a distributed mesh has returned for an empty
\* range with n_pieces = 2, in a build without the engine.
EmptyRangeReturnsWitness ==
  \E p \in Procs :
    /\ range[p] = << >> /\ Returned(p)
    /\ n_pieces = 2 /\ ~ serial_at_entry /\ ~ have_metis

\* The index map of the process is built.
IndexMapBuilt(p) == pc[p] = "L197"

\* C24 (no renumbering without collisions): when unique ids are enabled or
\* no two elements of the range share a hint, the map built gives every
\* element the hint find_global_indices returned at its place in the
\* iteration.
NoRenumbering ==
  \A p \in Procs :
    (IndexMapBuilt(p)
       /\ (enable_unique_id \/ ~ HasDuplicateHints(range[p]))) =>
      \A i \in DOMAIN range[p] :
        global_index_map[p][range[p][i]] = FindGlobalIndices(range[p])[i]

\* C24 witness: without unique ids a map is built for three elements with
\* three hints, iterated in an order that is not the order of their hints.
NoRenumberingWitness ==
  \E p \in Procs :
    /\ IndexMapBuilt(p) /\ ~ enable_unique_id
    /\ Len(range[p]) = 3 /\ ~ HasDuplicateHints(range[p])
    /\ \E i \in DOMAIN range[p] : hint[range[p][i]] # i - 1

\* C23 (tie-breaking), as claimed: in a map built for a range with
\* colliding hints, a smaller hint gets a smaller index, and of two
\* elements with the same hint the one with the smaller id gets the
\* smaller index.
TieBreakById ==
  \A p \in Procs :
    (IndexMapBuilt(p) /\ ~ enable_unique_id
       /\ HasDuplicateHints(range[p])) =>
      \A a, b \in SeqRange(range[p]) :
        /\ hint[a] < hint[b] => global_index_map[p][a] < global_index_map[p][b]
        /\ (hint[a] = hint[b] /\ a < b) =>
             global_index_map[p][a] < global_index_map[p][b]

\* A step leaves a global index map that has been built as it is.
IndexMapKept ==
  \A p \in Procs :
    global_index_map[p] # EmptyMap =>
      global_index_map'[p] = global_index_map[p]

\* C22 (result alignment): once a process has written the owners, every
\* element of the range has the owner part[map(e)], part being what the
\* engine returned, and map is the map under which processor 0 stored the
\* element's vertex weight and row width; no step changes a map once it
\* is built.
ResultAligned ==
  /\ [](\A p \in Procs :
         (Returned(p) /\ log[p].assign = 1) =>
           /\ part[p] = log[0].result
           /\ \A e \in SeqRange(range[p]) :
                /\ processor_id[p][e] = part[p][global_index_map[p][e] + 1]
                /\ IsProcessorZero(p) =>
                     /\ csr[p].vwgt[global_index_map[p][e] + 1]
                          = VertexWeight(e)
                     /\ RowWidth(p, e) =
                          NumNeighbors(e, global_index_map[p], csr[p].i2b))
  /\ [][IndexMapKept]_vars

\* C22 witness: the owners are written for a refined mesh whose elements
\* are indexed against their iteration order, and both partition ids are
\* in use.
ResultAlignedWitness ==
  \E p \in Procs :
    /\ Returned(p) /\ log[p].assign = 1
    /\ LocalIds(mesh) # ActiveIds(mesh)
    /\ \E i \in DOMAIN range[p] : global_index_map[p][range[p][i]] # i - 1
    /\ { processor_id[p][e] : e \in SeqRange(range[p]) } = {0, 1}

\* The vertex weights are written: the first pass is over.
WeightsWritten(p) == pc[p] \in {"L378", "L380", "L488"}

\* The slots of vwgt, each held by exactly one element of the range.
WeightSlotsFilledOnce(p) ==
  /\ Len(csr[p].vwgt) = Len(range[p])
  /\ \A g \in 0 .. (Len(range[p]) - 1) :
       Cardinality({ e \in SeqRange(range[p]) :
                       global_index_map[p][e] = g }) = 1

\* C25 (vertex weights), as amended: after the first pass vwgt has one
\* slot per element of the range, the slot of an element is the one at
\* its global index, and it holds the override for the element's id when
\* weights are attached, else 50 for a spline node (a NODEELEM, which has
\* one node) and the node count for any other element.
VertexWeights ==
  \A p \in Procs :
    WeightsWritten(p) =>
      /\ WeightSlotsFilledOnce(p)
      /\ \A e \in SeqRange(range[p]) :
           csr[p].vwgt[global_index_map[p][e] + 1] =
             IF mesh.weights # EmptyMap THEN mesh.weights[mesh.elem[e].id]
             ELSE IF mesh.elem[e].spline THEN 50
             ELSE mesh.elem[e].n_nodes

\* C25 witness: the graph is built without an override for a range that
\* holds a spline node and an element that is none, indexed against the
\* iteration order.
VertexWeightsWitness ==
  \E p \in Procs :
    /\ GraphBuilt(p) /\ mesh.weights = EmptyMap
    /\ \E a, b \in SeqRange(range[p]) :
         /\ mesh.elem[a].spline /\ ~ mesh.elem[b].spline
         /\ global_index_map[p][a] < global_index_map[p][b]
         /\ csr[p].vwgt[global_index_map[p][a] + 1] = 50
         /\ csr[p].vwgt[global_index_map[p][b] + 1] = mesh.elem[b].n_nodes

\* C25 as claimed: the same, with a spline node getting a weight reduced
\* below its node count.
VertexWeightsReduced ==
  \A p \in Procs :
    WeightsWritten(p) =>
      /\ WeightSlotsFilledOnce(p)
      /\ \A e \in SeqRange(range[p]) :
           IF mesh.weights # EmptyMap
           THEN csr[p].vwgt[global_index_map[p][e] + 1]
                  = mesh.weights[mesh.elem[e].id]
           ELSE IF mesh.elem[e].spline
           THEN csr[p].vwgt[global_index_map[p][e] + 1] < mesh.elem[e].n_nodes
           ELSE csr[p].vwgt[global_index_map[p][e] + 1] = mesh.elem[e].n_nodes

\* The offsets of the process are final: every row width is recorded and
\* prepare_for_use has summed them up.
OffsetsFinal(p) ==
  /\ csr[p].offsets =
       PartialSums(PassOneOffsets(range[p], global_index_map[p], csr[p].i2b))
  /\ Len(csr[p].vals) >= csr[p].offsets[Len(range[p]) + 1]

\* A step that writes adjacency values starts from final offsets and
\* leaves them as they are; a step that calls the engine starts from a
\* graph into which the second pass has written the values of every
\* element of the range.
PassOrderStep ==
  \A p \in Procs :
    /\ csr'[p].writes # csr[p].writes =>
         /\ pc[p] = "L380" /\ OffsetsFinal(p)
         /\ csr'[p].offsets = csr[p].offsets
    /\ log'[p].engine # log[p].engine =>
         /\ pc[p] = "L488" /\ OffsetsFinal(p)
         /\ csr[p].writes =
              PassTwoWrites(range[p], global_index_map[p], csr[p].i2b,
                            csr[p].offsets)

\* C26 (pass ordering): on processor 0 no adjacency value is written
\* before the row widths of all elements are recorded and the offsets
\* final, and the engine is not called before the second pass has written
\* the values of every element of the range.
PassOrdering == [][PassOrderStep]_vars

\* C26 witness: the engine has been called for a graph with adjacency
\* values on three or more elements.
PassOrderingWitness ==
  \E p \in Procs :
    /\ log[p].engine = 1 /\ csr[p].writes # {}
    /\ Len(range[p]) >= 3

\* What vals holds in the row of the element e.
RowContent(p, e) ==
  { csr[p].vals[k] :
      k \in (csr[p].offsets[global_index_map[p][e] + 1] + 1)
             .. csr[p].offsets[global_index_map[p][e] + 2] }

ActiveRange(p) == \A e \in SeqRange(range[p]) : mesh.elem[e].active

FrameStep ==
  /\ mesh' = mesh /\ hint' = hint /\ mesh_range' = mesh_range
  /\ \A p \in Procs :
       /\ \A e \in ElemIds :
            processor_id'[p][e] # processor_id[p][e]
              => e \in SeqRange(range[p])
       /\ is_serial'[p] # is_serial[p] => (pc[p] = "L90" /\ is_serial'[p])

\* C28 (frame), as amended: apart from the gather of a mesh that is not
\* serial, a call changes nothing but the owner of elements of [beg,end):
\* every element outside the range keeps its owner, and no neighbor link,
\* active flag or id changes.
FrameKept ==
  /\ [](\A p \in Procs : \A e \in ElemIds \ SeqRange(range[p]) :
           processor_id[p][e] = OldOwner)
  /\ [][FrameStep]_vars

\* C28 witness: a process has written the owners of a strict sub-range
\* through the graph path, and an element outside it has its old owner.
FrameKeptWitness ==
  \E p \in Procs :
    /\ Returned(p) /\ log[p].assign = 1
    /\ \A e \in SeqRange(range[p]) : processor_id[p][e] # OldOwner
    /\ \E e \in ElemIds \ SeqRange(range[p]) : processor_id[p][e] = OldOwner

\* C28 as stated: the owner of elements of [beg,end) is all that a call
\* changes, the serial state of the mesh included.
FrameStrict ==
  \A p \in Procs :
    /\ is_serial[p] = serial_at_entry
    /\ \A e \in ElemIds \ SeqRange(range[p]) : processor_id[p][e] = OldOwner

\* One call on a single process with the engine at hand and two or more
\* pieces, up to one more than the largest number that still takes
\* recursive bisection.
InitStrategy ==
  /\ n_processors = 1
  /\ n_pieces \in 2 .. (RecursiveMax + 1)
  /\ have_metis = TRUE
  /\ enable_unique_id = TRUE
  /\ mesh_range \in MeshRanges(MaxElem)
  /\ hint \in HintsFor(MaxElem, mesh_range, enable_unique_id)
  /\ mesh = ChainMesh(MaxElem)
  /\ serial_at_entry \in BOOLEAN
  /\ is_serial = [p \in Procs |-> serial_at_entry]
  /\ range = [p \in Procs |-> mesh_range]
  /\ InitLocals(MaxElem)

NextStrategy ==
  \/ \E p \in Procs : ReturnEmpty(p)
  \/ \E p \in Procs : WarnAndGather(p)
  \/ \E p \in Procs : AllgatherReturns(p)
  \/ \E p \in Procs : SkipGather(p)
  \/ \E p \in Procs : BuildIndexMap(p)
  \/ \E p \in Procs : BuildInteriorMap(p)
  \/ \E p \in Procs : BuildGraph(p)
  \/ \E p \in Procs : PassOne(p)
  \/ \E p \in Procs : PrepareForUse(p)
  \/ \E p \in Procs : PassTwo(p)
  \/ \E p \in Procs : CallEngine(p)
  \/ \E p \in Procs : Broadcast(p)
  \/ \E p \in Procs : AssignOwners(p)

SpecStrategy == InitStrategy /\ [][NextStrategy]_vars

\* The process is past the engine call of lines 488-522.
PastEngine(p) == pc[p] \in {"L527", "L532", "done"} /\ range[p] # << >>

\* C21 (strategy selection): on processor 0, with the engine and two or
\* more pieces, exactly one entry point is called, once: recursive
\* bisection if and only if n_pieces <= 8, k-way if and only if
\* n_pieces > 8, and either one with the same vertex count, offsets,
\* values, weights and number of parts.
StrategySelection ==
  \A p \in Procs :
    /\ log[p].engine = (IF PastEngine(p) THEN 1 ELSE 0)
    /\ log[p].entry = "none" <=> log[p].engine = 0
    /\ log[p].engine = 1 =>
         /\ log[p].entry \in {"recursive", "kway"}
         /\ log[p].entry = "recursive" <=> n_pieces <= 8
         /\ log[p].entry = "kway" <=> n_pieces > 8
         /\ DOMAIN engine_memo =
              { << Len(range[p]), csr[p].offsets, csr[p].vals, csr[p].vwgt,
                   n_pieces >> }

\* C21 witness: a call for nine pieces has returned and the k-way entry
\* point was the one called.
StrategySelectionWitness ==
  \E p \in Procs :
    /\ n_pieces = 9 /\ Returned(p) /\ range[p] # << >>
    /\ log[p].engine = 1 /\ log[p].entry = "kway"

\* One call of TwostepTimeSolver::solve(), at some time, with the first
\* deltat, with or without an upper tolerance, with or without leave to
\* reduce deltat after a solver failure, as the first solve or a later one.
InitTwostep ==
  /\ n_processors = 1
  /\ n_pieces = 1
  /\ have_metis = FALSE
  /\ enable_unique_id = FALSE
  /\ mesh_range = << >>
  /\ hint = [e \in 0 .. (MaxElem - 1) |-> 0]
  /\ mesh = ChainMesh(MaxElem)
  /\ serial_at_entry = TRUE
  /\ is_serial = [p \in Procs |-> TRUE]
  /\ range = [p \in Procs |-> << >>]
  /\ InitPartitionLocals(MaxElem, "done")
  /\ \E t \in {0, 5}, ut \in {0 - 1, 0, 1}, rd \in {0, 1}, fs \in BOOLEAN :
       twostep = [NoSolve EXCEPT !.at = "L54", !.time = t,
                                 !.deltat = FirstDeltat,
                                 !.upper_tolerance = ut,
                                 !.reduce_deltat_on_diffsolver_failure = rd,
                                 !.first_solve = fs]

NextTwostep ==
  \/ SolveBegin
  \/ DoubleSolve
  \/ HalfStep
  \/ SingleSolve
  \/ EarlyReturn
  \/ RetryTimestep
  \/ ToleranceMet
  \/ FinishSolve

SpecTwostep == InitTwostep /\ [][NextTwostep]_vars

\* C30 (system.time is left unchanged): once solve() has returned,
\* system.time is what it was at the start of the retry loop.
TimeUnchanged ==
  twostep.at = "done" => twostep.time = twostep.loop_time
====
